---------------------------- MODULE Spec2Model ----------------------------
(***************************************************************************)
(* A model of packer/packer.py: the dependency walker                     *)
(* FilePath.visit_from_blend (a recursive generator) and its driver pack. *)
(*                                                                         *)
(* Path strings are sequences of tokens: "/" and "\\" are the two         *)
(* separator characters, "@" the staging suffix, every other token is a   *)
(* run of ordinary characters.  The file system maps a path to a file: an *)
(* asset (opaque bytes) or a blend file (a sequence of blocks, a block's  *)
(* address being its index).                                              *)
(***************************************************************************)
EXTENDS Integers, Sequences, FiniteSets, TLC

SL == "/"
BS == "\\"
AT == "@"

(***************************************************************************)
(* os.path on token sequences (posixpath).                                 *)
(***************************************************************************)
StartsWith(p, q) ==
    /\ Len(p) >= Len(q)
    /\ SubSeq(p, 1, Len(q)) = q

\* bytes.rfind: the last index holding t, 0 when there is none
RFind(p, t) ==
    LET hits == {i \in 1..Len(p) : p[i] = t}
    IN  IF hits = {} THEN 0 ELSE CHOOSE i \in hits : \A j \in hits : j <= i

\* bytes.split(sep)[-1]
SplitLast(p, sep) ==
    SubSeq(p, RFind(p, sep) + 1, Len(p))

RECURSIVE RStripSlash(_)
RStripSlash(p) ==
    IF p # <<>> /\ p[Len(p)] = SL THEN RStripSlash(SubSeq(p, 1, Len(p) - 1)) ELSE p

OsBasename(p) ==
    SplitLast(p, SL)

OsDirname(p) ==
    LET head == SubSeq(p, 1, RFind(p, SL))
    IN  IF head # <<>> /\ (\E k \in 1..Len(head) : head[k] # SL)
        THEN RStripSlash(head)
        ELSE head

OsJoin(a, b) ==
    IF b # <<>> /\ b[1] = SL THEN b
    ELSE IF a = <<>> \/ a[Len(a)] = SL THEN a \o b
    ELSE a \o <<SL>> \o b

\* the components of a path between "/" separators, empty components dropped
RECURSIVE Comps(_)
Comps(p) ==
    IF p = <<>> THEN <<>>
    ELSE IF p[1] = SL THEN Comps(Tail(p))
    ELSE LET cut == CHOOSE i \in 1..(Len(p) + 1) :
                       /\ (i = Len(p) + 1 \/ p[i] = SL)
                       /\ \A j \in 1..(i - 1) : p[j] # SL
         IN  <<SubSeq(p, 1, cut - 1)>> \o Comps(SubSeq(p, cut, Len(p)))

\* normpath's component stack: "." dropped, ".." pops (at the root it is dropped)
RECURSIVE NormComps(_, _)
NormComps(cs, acc) ==
    IF cs = <<>> THEN acc
    ELSE IF Head(cs) = <<".">> THEN NormComps(Tail(cs), acc)
    ELSE IF Head(cs) = <<"..">>
         THEN NormComps(Tail(cs), IF acc = <<>> THEN acc ELSE SubSeq(acc, 1, Len(acc) - 1))
    ELSE NormComps(Tail(cs), Append(acc, Head(cs)))

RECURSIVE JoinComps(_)
JoinComps(cs) ==
    IF cs = <<>> THEN <<>> ELSE <<SL>> \o Head(cs) \o JoinComps(Tail(cs))

\* os.path.abspath of an absolute path: normpath
OsAbspath(p) ==
    LET cs == NormComps(Comps(p), <<>>)
    IN  IF cs = <<>> THEN <<SL>> ELSE JoinComps(cs)

\* utils.abspath
Abspath(path, start) ==
    IF StartsWith(path, <<SL, SL>>)
    THEN OsJoin(start, SubSeq(path, 3, Len(path)))
    ELSE path

\* path_rel.split(b"\\")[-1].split(b"/")[-1]
PathBase(path_rel) ==
    SplitLast(SplitLast(path_rel, BS), SL)

\* b"//" + path_base
RelForm(path_base) ==
    <<SL, SL>> \o path_base


(***************************************************************************)
(* The block store (blendfile): a blend file is a sequence of blocks, the  *)
(* address of a block is its index, 0 is the null address.                 *)
(***************************************************************************)
Blk(code, idname) ==
    [code |-> code, idname |-> idname, path |-> <<>>,
     data |-> 0, lib |-> 0, totcol |-> 0, mat |-> 0,
     first |-> 0, next |-> 0, ob |-> 0, elems |-> <<>>]

BlkIM(idname, path) == [Blk("IM", idname) EXCEPT !.path = path]
BlkLI(idname, path) == [Blk("LI", idname) EXCEPT !.path = path]
BlkID(idname, lib) == [Blk("ID", idname) EXCEPT !.lib = lib]
BlkOB(idname, data) == [Blk("OB", idname) EXCEPT !.data = data]

Asset(bytes) == [kind |-> "asset", bytes |-> bytes, blocks |-> <<>>]
Blend(blocks) == [kind |-> "blend", bytes |-> "", blocks |-> blocks]

\* blend.find_blocks_from_code(code): addresses in store order
FindBlocksFromCode(blocks, code) ==
    SelectSeq([i \in 1..Len(blocks) |-> i], LAMBDA i : blocks[i].code = code)

\* blend.code_index.keys(): the codes in order of first appearance
RECURSIVE CodeIndexFrom(_, _, _)
CodeIndexFrom(blocks, i, acc) ==
    IF i > Len(blocks) THEN acc
    ELSE CodeIndexFrom(blocks, i + 1,
            IF \E k \in 1..Len(acc) : acc[k] = blocks[i].code
            THEN acc ELSE Append(acc, blocks[i].code))

CodeIndex(blocks) ==
    CodeIndexFrom(blocks, 1, <<>>)

(***************************************************************************)
(* The source tree.  Directory /s holds the root file A and library B,     *)
(* /s/t a second library also called B; /d is the fresh destination.       *)
(***************************************************************************)
SrcDir == <<SL, "s">>
SubDir == <<SL, "s", SL, "t">>
DstDir == <<SL, "d">>

\* pack's first argument
blendfile_src == SrcDir \o <<SL, "A">>

\* the larger model bounds: records of the root file
MaxImages == 2
MaxLinks == 2

\* image records the root file may hold: (id name, stored path); the third
\* path is written with a backslash and names no file of the source tree
RootImages ==
    << [n |-> "IMa", p |-> <<SL, SL, "i">>],
       [n |-> "IMb", p |-> <<SL, SL, "t", SL, "i">>],
       [n |-> "IMm", p |-> <<SL, SL, "t", BS, "m">>] >>

\* library paths the root file may link, and the names linked from one
LibPaths ==
    << <<SL, SL, "B">>,
       <<SL, "s", SL, "B">>,
       <<SL, SL, "t", SL, "B">>,
       <<SL, SL, "A">>,
       <<SL, SL, "t", SL, "C">> >>

NameSets ==
    << {}, {"IMb"}, {"IMa", "OBx"}, {"OBy"} >>

NLinks == Len(LibPaths) * Len(NameSets)
LinkPath(k) == LibPaths[((k - 1) \div Len(NameSets)) + 1]
LinkNames(k) == NameSets[((k - 1) % Len(NameSets)) + 1]

\* a set of names as a sequence, in a fixed order
RECURSIVE SetToSeq(_)
SetToSeq(S) ==
    IF S = {} THEN <<>>
    ELSE LET x == CHOOSE y \in S : TRUE IN <<x>> \o SetToSeq(S \ {x})

\* the blocks of one library link placed at address base + 1: the library
\* record, then one placeholder per linked name pointing back at it
LinkBlocks(k, base) ==
    LET ns == SetToSeq(LinkNames(k))
    IN  <<BlkLI("LIlib", LinkPath(k))>>
        \o [j \in 1..Len(ns) |-> BlkID(ns[j], base + 1)]

RECURSIVE LinksFrom(_, _, _)
LinksFrom(ks, k, base) ==
    IF k > NLinks THEN <<>>
    ELSE IF k \in ks
         THEN LET bs == LinkBlocks(k, base)
              IN  bs \o LinksFrom(ks, k + 1, base + Len(bs))
         ELSE LinksFrom(ks, k + 1, base)

RootBlocks(ims, ks) ==
    LET imgs == SelectSeq(RootImages, LAMBDA r : r.n \in ims)
        ib == [j \in 1..Len(imgs) |-> BlkIM(imgs[j].n, imgs[j].p)]
    IN  ib \o LinksFrom(ks, 1, Len(ib))

\* library /s/B: two images, an object showing the first image, and an
\* object whose data is linked from A
LibB ==
    << BlkIM("IMa", <<SL, SL, "t", SL, "i">>),
       BlkIM("IMb", <<SL, SL, "t", SL, "m">>),
       BlkOB("OBx", 1),
       BlkOB("OBy", 5),
       BlkID("MEy", 6),
       BlkLI("LIroot", <<SL, SL, "A">>) >>

\* library /s/t/B
LibTB ==
    << BlkIM("IMa", <<SL, SL, "j">>) >>

SourceTree(ims, ks) ==
    (blendfile_src :> Blend(RootBlocks(ims, ks)))
    @@ (SrcDir \o <<SL, "B">> :> Blend(LibB))
    @@ (SubDir \o <<SL, "B">> :> Blend(LibTB))
    @@ (SrcDir \o <<SL, "i">> :> Asset("i1"))
    @@ (SubDir \o <<SL, "i">> :> Asset("i2"))
    @@ (SubDir \o <<SL, "j">> :> Asset("j1"))
    @@ (SubDir \o <<SL, "m">> :> Asset("m1"))

ImageChoices ==
    {ims \in SUBSET {RootImages[j].n : j \in 1..Len(RootImages)} :
        Cardinality(ims) <= MaxImages}

\* the sets of at most n links, no two of them with the same stored path
RECURSIVE LinkSets(_)
LinkSets(n) ==
    IF n = 0 THEN {{}}
    ELSE LET prev == LinkSets(n - 1)
         IN  prev \cup {ks \cup {k} : ks \in prev,
                          k \in 1..NLinks}

LinkChoices ==
    {ks \in LinkSets(MaxLinks) :
        \A a, b \in ks : a # b => LinkPath(a) # LinkPath(b)}

\* pack's second argument: the packed root file gets a name of its own
blendfile_dst == DstDir \o <<SL, "P">>


(***************************************************************************)
(* ExpandID: the expansion rules.  A rule yields addresses; 0 stands for   *)
(* the None a null pointer resolves to.                                    *)
(***************************************************************************)
\* bf_utils.iter_ListBase: follow next until the null address
RECURSIVE IterListBase(_, _, _)
IterListBase(blocks, addr, fuel) ==
    IF addr = 0 \/ fuel = 0 THEN <<>>
    ELSE <<addr>> \o IterListBase(blocks, blocks[addr].next, fuel - 1)

\* bf_utils.iter_array: the blocks the first length pointers of an array point to
iter_array(blocks, addr, length) ==
    [i \in 1..length |-> blocks[addr].elems[i]]

expand_OB(blocks, addr) ==
    <<blocks[addr].data>>

\* reads the material array and prints it; yields nothing
expand_ME(blocks, addr) ==
    <<>>

expand_MA(blocks, addr) ==
    <<>>

expand_TE(blocks, addr) ==
    <<>>

\* a group rule that stops after the first member
expand_GR_FirstOnly(blocks, addr) ==
    IF blocks[addr].first = 0 THEN <<>>
    ELSE <<blocks[blocks[addr].first].ob>>

expand_GR(blocks, addr) ==
    LET gobs == IterListBase(blocks, blocks[addr].first, Len(blocks))
    IN  [j \in 1..Len(gobs) |-> blocks[gobs[j]].ob]

\* ExpandID.expand_funcs.get(code)
ExpandFuncs(blocks, addr) ==
    LET code == blocks[addr].code
    IN  CASE code = "OB" -> [has |-> TRUE, subs |-> expand_OB(blocks, addr)]
          [] code = "ME" -> [has |-> TRUE, subs |-> expand_ME(blocks, addr)]
          [] code = "MA" -> [has |-> TRUE, subs |-> expand_MA(blocks, addr)]
          [] code = "TE" -> [has |-> TRUE, subs |-> expand_TE(blocks, addr)]
          [] code = "GR" -> [has |-> TRUE, subs |-> expand_GR(blocks, addr)]
          [] OTHER -> [has |-> FALSE, subs |-> <<>>]

(***************************************************************************)
(* visit_from_blend: what one call scans.  A scan state is the sequence of *)
(* blocks yielded so far (out), the expand set (ec) and the blocks whose   *)
(* expansion rule was invoked (calls).                                     *)
(***************************************************************************)
NoSet == [some |-> FALSE, set |-> {}]
SomeSet(S) == [some |-> TRUE, set |-> S]

RECURSIVE block_expand(_, _, _)
RECURSIVE ExpandSubs(_, _, _)

\* a test that lets a block through until it has been yielded twice
expand_codes_add_test_Twice(blocks, addr, st) ==
    Cardinality({i \in 1..Len(st.out) : st.out[i] = addr}) < 2

\* expand_codes_add_test (lines 92-95): whether adding the block's name makes
\* expand_codes grow
expand_codes_add_test(blocks, addr, st) ==
    blocks[addr].idname \notin st.ec

\* block_expand of the nested call (lines 97-107)
block_expand(blocks, addr, st) ==
    IF expand_codes_add_test(blocks, addr, st)
    THEN LET st1 == [st EXCEPT !.out = Append(@, addr),
                               !.ec = @ \cup {blocks[addr].idname}]
             fn == ExpandFuncs(blocks, addr)
         IN  IF fn.has
             THEN ExpandSubs(blocks, fn.subs, [st1 EXCEPT !.calls = Append(@, addr)])
             ELSE st1
    ELSE [st EXCEPT !.out = Append(@, addr)]

ExpandSubs(blocks, subs, st) ==
    IF subs = <<>> THEN st
    ELSE ExpandSubs(blocks, Tail(subs),
            IF Head(subs) # 0 THEN block_expand(blocks, Head(subs), st) ELSE st)

\* recursive and (level > 0) and (block_codes is not None)
Expanding(fr) ==
    fr.recursive /\ fr.level > 0 /\ fr.block_codes.some

\* iter_blocks_id(code), run to its end from scan state st
RECURSIVE IterFiltered(_, _, _, _)
IterFiltered(blocks, addrs, fr, st) ==
    IF addrs = <<>> THEN st
    ELSE LET a == Head(addrs)
             st1 == IF blocks[a].idname \in fr.block_codes.set
                    THEN IF Expanding(fr)
                         THEN block_expand(blocks, a, st)
                         ELSE [st EXCEPT !.out = Append(@, a)]
                    ELSE st
         IN  IterFiltered(blocks, Tail(addrs), fr, st1)

iter_blocks_id(blocks, code, fr, st) ==
    IF ~fr.block_codes.some
    THEN [st EXCEPT !.out = @ \o FindBlocksFromCode(blocks, code)]
    ELSE IterFiltered(blocks, FindBlocksFromCode(blocks, code), fr, st)

\* the two-byte codes; any other code (DATA, REND, ...) is skipped
TwoByteCodes == {"IM", "LI", "ID", "OB", "ME", "MA", "TE", "GR", "WM", "SN"}
SkippedCodes == {"LI", "ID", "WM", "SN"}

\* the loop over blend.code_index.keys() (lines 138-154)
RECURSIVE ScanCodes(_, _, _, _)
ScanCodes(blocks, codes, fr, st) ==
    IF codes = <<>> THEN st
    ELSE IF Head(codes) \notin TwoByteCodes \/ Head(codes) \in SkippedCodes
         THEN ScanCodes(blocks, Tail(codes), fr, st)
         ELSE ScanCodes(blocks, Tail(codes), fr,
                        iter_blocks_id(blocks, Head(codes), fr, st))

ScanStart == [out |-> <<>>, ec |-> {}, calls |-> <<>>]

ScanMain(blocks, fr) ==
    ScanCodes(blocks, CodeIndex(blocks), fr, ScanStart)

\* a from_block that emits the file's library records ahead of the others
from_block_LibsFirst(blocks, addrs) ==
    FindBlocksFromCode(blocks, "LI")
        \o SelectSeq(addrs, LAMBDA a : blocks[a].code \in {"IM", "LI"})

\* FilePath.from_block: the yielded blocks that give a FilePath
from_block(blocks, addrs) ==
    SelectSeq(addrs, LAMBDA a : blocks[a].code \in {"IM", "LI"})

\* a table built from every placeholder of the file
iter_blocks_lib_All(blocks, expand_codes) ==
    FindBlocksFromCode(blocks, "ID")

\* iter_blocks_lib(): the placeholders the library table is built from
iter_blocks_lib(blocks, expand_codes) ==
    IF ~expand_codes.some
    THEN FindBlocksFromCode(blocks, "ID")
    ELSE SelectSeq(FindBlocksFromCode(blocks, "ID"),
                   LAMBDA a : blocks[a].idname \in expand_codes.set)

\* lib_all (lines 158-169): stored library path -> names linked from it
LibAll(blocks, expand_codes) ==
    LET ids == iter_blocks_lib(blocks, expand_codes)
        lib_path(a) == blocks[blocks[a].lib].path
        keys == {lib_path(ids[j]) : j \in 1..Len(ids)}
    IN  [k \in keys |-> {blocks[ids[j]].idname :
                            j \in {i \in 1..Len(ids) : lib_path(ids[i]) = k}}]


(***************************************************************************)
(* The state of one pack call and of the generator it drives.              *)
(***************************************************************************)
VARIABLES
    fs,                 \* the file system: path -> file
    pc,                 \* where pack is: walk, finalize, move, copy, done, crashed
    err,                \* the exception that ended pack, "" when none
    stack,              \* the visit_from_blend calls in progress, innermost last
    cur,                \* the FilePath just yielded to pack's loop body
    path_temp_files,    \* pack's set of staging paths
    path_copy_files,    \* pack's set of (source, destination) copies
    lib_visit,          \* pack's dict: library path -> names already followed
    handles,            \* the blend files now open (by the path opened)
    temp_todo,          \* staging paths the move loop has not reached yet
    copy_todo,          \* copy list entries the copy loop has not reached yet
    src0,               \* the file system when pack was called
    writes,             \* every path opened in write mode so far
    edits,              \* every rewrite so far: (file opened, block, new path)
    refs,               \* every FilePath pack's loop body has handled, in order
    visits,             \* every visit_from_blend call made so far, in order
    moves,              \* every shutil.move done so far: (from, to)
    warnings,           \* how many times each source was reported missing
    copied,             \* the copy list entries that were copied
    staged,             \* the staging copies as the traversal left them
    run,                \* 1 in the first pack call, 2 in a repeated one
    first,              \* the destination directory the first call left
    xblocks,            \* a block store an expansion rule is applied to
    xaddr,              \* the block the rule was applied to, 0 when none
    xsubs,              \* what the rule yielded
    xst,                \* what block_expand yielded and recorded
    xvisit              \* what one file's visit yields at level 0 and at level 1

vars == <<fs, pc, err, stack, cur, path_temp_files, path_copy_files,
          lib_visit, handles, temp_todo, copy_todo, src0, writes, edits, refs,
          visits, moves, warnings, copied, staged, run, first,
          xblocks, xaddr, xsubs, xst, xvisit>>

NoFP == [some |-> FALSE, tmp |-> <<>>, addr |-> 0, basedir |-> <<>>,
         rootdir |-> <<>>, file |-> <<>>, level |-> 0, vid |-> 0]

EmptyMap == [x \in {} |-> {}]

\* the file a path names: the system resolves ".", ".." and doubled slashes
Resolve(p) == OsAbspath(p)
Exists(fsv, p) == Resolve(p) \in DOMAIN fsv
FileAt(fsv, p) == fsv[Resolve(p)]

\* shutil.copy(src, dst), src existing
ShCopy(fsv, src, dst) ==
    [q \in DOMAIN fsv \cup {Resolve(dst)} |->
        IF q = Resolve(dst) THEN FileAt(fsv, src) ELSE fsv[q]]

\* shutil.move(src, dst), src existing: a rename that replaces dst
ShMove(fsv, src, dst) ==
    [q \in (DOMAIN fsv \ {Resolve(src)}) \cup {Resolve(dst)} |->
        IF q = Resolve(dst) THEN FileAt(fsv, src) ELSE fsv[q]]

base_dir_src == OsDirname(blendfile_src)
base_dir_dst == OsDirname(blendfile_dst)

\* a hook that stages a file in place, over the original
StagingPath_InPlace(filepath, dstdir) ==
    filepath

\* os.path.join(base_dir_dst, os.path.basename(filepath)) + b'@'
StagingPath(filepath, dstdir) ==
    OsJoin(dstdir, OsBasename(filepath)) \o <<AT>>

\* a hook that copies the original again on every call
NeedsCopy_Always(filepath_tmp, temps) ==
    TRUE

\* whether temp_remap_cb copies: only the first time a staging path is asked for
NeedsCopy(filepath_tmp, temps) ==
    filepath_tmp \notin temps

\* temp_remap_cb(filepath): the staging path, and the file system and
\* path_temp_files it leaves; ok is FALSE when shutil.copy raises
temp_remap_cb(filepath, fsv, temps, dstdir) ==
    LET filepath_tmp == StagingPath(filepath, dstdir)
    IN  IF NeedsCopy(filepath_tmp, temps)
        THEN IF Exists(fsv, filepath)
             THEN [ok |-> TRUE, tmp |-> filepath_tmp,
                   fs |-> ShCopy(fsv, filepath, filepath_tmp),
                   temps |-> temps \cup {filepath_tmp}]
             ELSE [ok |-> FALSE, tmp |-> filepath_tmp, fs |-> fsv, temps |-> temps]
        ELSE [ok |-> TRUE, tmp |-> filepath_tmp, fs |-> fsv, temps |-> temps]

\* a visit that stages the file but opens the path it was given
FilepathTmp_Original(filepath, remapped) ==
    filepath

\* the path a visit opens (lines 130-133); pack always passes the hook
FilepathTmp(filepath, remapped) ==
    remapped

\* the state of a visit_from_blend call that has not run yet (lines 54-85)
\* vid numbers the call: its place in visits
NewFrame(filepath, block_codes, rootdir, level, has_lib_visit, vid) ==
    LET basedir == OsDirname(OsAbspath(filepath))
    IN  [filepath |-> filepath, readonly |-> FALSE, recursive |-> TRUE,
         block_codes |-> block_codes, level |-> level, vid |-> vid,
         has_lib_visit |-> has_lib_visit,
         basedir |-> basedir,
         rootdir |-> IF rootdir = <<>> THEN basedir ELSE rootdir,
         phase |-> "open", filepath_tmp |-> <<>>, ec |-> {},
         todo |-> <<>>, lib_all |-> EmptyMap, libs_left |-> {}]

\* the FilePaths one call yields from its own file (lines 138-154 and 172-173)
VisitYields(blocks, fr) ==
    LET scan == ScanMain(blocks, fr)
        li == iter_blocks_id(blocks, "LI", fr,
                             [out |-> <<>>, ec |-> scan.ec, calls |-> <<>>])
    IN  from_block(blocks, scan.out) \o from_block(blocks, li.out)

NoVisit == [done |-> FALSE, block_codes |-> {}, lo |-> <<>>, hi |-> <<>>]

\* the arguments of the recursive call (lines 195-203): lib_visit is not among them
ChildHasLibVisit(parent) ==
    FALSE

Top == stack[Len(stack)]
SetTop(fr) == [stack EXCEPT ![Len(stack)] = fr]

Ghosts == <<src0, run, first, xblocks, xaddr, xsubs, xst, xvisit>>

Init ==
    \E ims \in ImageChoices, ks \in LinkChoices :
        /\ fs = SourceTree(ims, ks)
        /\ src0 = SourceTree(ims, ks)
        /\ pc = "walk"
        /\ err = ""
        /\ stack = <<NewFrame(blendfile_src, NoSet, <<>>, 0, TRUE, 1)>>
        /\ cur = NoFP
        /\ path_temp_files = {}
        /\ path_copy_files = {}
        /\ lib_visit = EmptyMap
        /\ handles = {}
        /\ temp_todo = {}
        /\ copy_todo = {}
        /\ writes = {}
        /\ edits = {}
        /\ refs = <<>>
        /\ visits = <<[filepath |-> blendfile_src, block_codes |-> NoSet, level |-> 0]>>
        /\ moves = {}
        /\ warnings = EmptyMap
        /\ copied = {}
        /\ staged = EmptyMap
        /\ run = 1
        /\ first = EmptyMap
        /\ xblocks = <<>>
        /\ xaddr = 0
        /\ xsubs = <<>>
        /\ xst = ScanStart
        /\ xvisit = NoVisit

\* a pack that swallows the exception and carries on
Raise_Retry(e) ==
    /\ pc' = pc
    /\ err' = e

\* an exception leaves pack at once
Raise(e) ==
    /\ pc' = "crashed"
    /\ err' = e

Walking == pc = "walk" /\ stack # <<>> /\ ~cur.some

\* lines 130-136: stage the file through the hook and open the staging copy
Open ==
    /\ Walking
    /\ Top.phase = "open"
    /\ LET fr == Top
           r == temp_remap_cb(fr.filepath, fs, path_temp_files, base_dir_dst)
           filepath_tmp == FilepathTmp(fr.filepath, r.tmp)
       IN  IF ~r.ok \/ ~Exists(r.fs, filepath_tmp)
           THEN /\ Raise("FileNotFoundError")
                /\ UNCHANGED <<fs, stack, path_temp_files, handles, writes>>
           ELSE LET blocks == FileAt(r.fs, filepath_tmp).blocks
                    scan == ScanMain(blocks, fr)
                IN  /\ fs' = r.fs
                    /\ path_temp_files' = r.temps
                    /\ handles' = handles \cup {filepath_tmp}
                    /\ writes' = IF fr.readonly THEN writes
                                 ELSE writes \cup {filepath_tmp}
                    /\ stack' = SetTop([fr EXCEPT !.phase = "scan",
                                                  !.filepath_tmp = filepath_tmp,
                                                  !.ec = scan.ec,
                                                  !.todo = from_block(blocks, scan.out)])
                    /\ UNCHANGED <<pc, err>>
    /\ UNCHANGED <<cur, path_copy_files, lib_visit, temp_todo,
                   copy_todo, edits, refs, visits, moves, warnings, copied, staged, Ghosts>>

\* lines 154 and 173: the generator yields the next FilePath and suspends
Yield ==
    /\ Walking
    /\ Top.phase \in {"scan", "li"}
    /\ Top.todo # <<>>
    /\ cur' = [some |-> TRUE, tmp |-> Top.filepath_tmp, addr |-> Head(Top.todo),
               basedir |-> Top.basedir, rootdir |-> Top.rootdir,
               file |-> Top.filepath, level |-> Top.level, vid |-> Top.vid]
    /\ stack' = SetTop([Top EXCEPT !.todo = Tail(@)])
    /\ UNCHANGED <<fs, pc, err, path_temp_files, path_copy_files,
                   lib_visit, handles, temp_todo, copy_todo, writes, edits, refs,
                   visits, moves, warnings, copied, staged, Ghosts>>

\* block[path] = value, through the open file
SetPath(fsv, tmp, addr, value) ==
    [fsv EXCEPT ![Resolve(tmp)].blocks[addr].path = value]

\* lines 357-367: the body of pack's loop
Process ==
    /\ pc = "walk"
    /\ cur.some
    /\ LET path_rel == FileAt(fs, cur.tmp).blocks[cur.addr].path
           path_base == PathBase(path_rel)
           path_src == Abspath(path_rel, cur.basedir)
           path_dst == OsJoin(base_dir_dst, path_base)
       IN  /\ fs' = SetPath(fs, cur.tmp, cur.addr, RelForm(path_base))
           /\ path_copy_files' = path_copy_files \cup {<<path_src, path_dst>>}
           /\ edits' = edits \cup {[tmp |-> cur.tmp, addr |-> cur.addr,
                                    value |-> RelForm(path_base)]}
           /\ refs' = Append(refs, [file |-> cur.file, tmp |-> cur.tmp,
                                    addr |-> cur.addr, level |-> cur.level,
                                    vid |-> cur.vid,
                                    code |-> FileAt(fs, cur.tmp).blocks[cur.addr].code,
                                    path_rel |-> path_rel,
                                    src |-> path_src, dst |-> path_dst,
                                    open |-> cur.tmp \in handles])
    /\ cur' = NoFP
    /\ UNCHANGED <<pc, err, stack, path_temp_files, lib_visit,
                   handles, temp_todo, copy_todo, writes, visits, moves, warnings,
                   copied, staged, Ghosts>>

\* a walker that closes the file as soon as the library table is built
BuildLibs_Closed ==
    /\ Walking
    /\ Top.phase = "scan"
    /\ Top.todo = <<>>
    /\ LET fr == Top
           blocks == FileAt(fs, fr.filepath_tmp).blocks
           expand_codes == IF Expanding(fr) THEN SomeSet(fr.ec) ELSE NoSet
           li == iter_blocks_id(blocks, "LI", fr,
                                [out |-> <<>>, ec |-> fr.ec, calls |-> <<>>])
       IN  /\ stack' = SetTop([fr EXCEPT
                    !.phase = "li",
                    !.lib_all = IF fr.recursive THEN LibAll(blocks, expand_codes)
                                ELSE EmptyMap,
                    !.todo = from_block(blocks, li.out)])
           /\ handles' = handles \ {fr.filepath_tmp}
    /\ UNCHANGED <<fs, pc, err, cur, path_temp_files, path_copy_files,
                   lib_visit, temp_todo, copy_todo, writes, edits, refs,
                   visits, moves, warnings, copied, staged, Ghosts>>

\* lines 156-169: the scan is over; build the library table, then start on
\* the library records themselves (line 172)
BuildLibs ==
    /\ Walking
    /\ Top.phase = "scan"
    /\ Top.todo = <<>>
    /\ LET fr == Top
           blocks == FileAt(fs, fr.filepath_tmp).blocks
           expand_codes == IF Expanding(fr) THEN SomeSet(fr.ec) ELSE NoSet
           li == iter_blocks_id(blocks, "LI", fr,
                                [out |-> <<>>, ec |-> fr.ec, calls |-> <<>>])
       IN  stack' = SetTop([fr EXCEPT
                !.phase = "li",
                !.lib_all = IF fr.recursive THEN LibAll(blocks, expand_codes)
                            ELSE EmptyMap,
                !.todo = from_block(blocks, li.out)])
    /\ UNCHANGED <<fs, pc, err, cur, path_temp_files, path_copy_files,
                   lib_visit, handles, temp_todo, copy_todo, writes, edits, refs,
                   visits, moves, warnings, copied, staged, Ghosts>>

\* a walker that leaves the file open when it goes into the libraries
Close_KeepOpen ==
    /\ Walking
    /\ Top.phase = "li"
    /\ Top.todo = <<>>
    /\ stack' = SetTop([Top EXCEPT
            !.phase = "recurse",
            !.libs_left = IF Top.recursive THEN DOMAIN Top.lib_all ELSE {}])
    /\ UNCHANGED <<fs, pc, err, cur, path_temp_files, path_copy_files,
                   lib_visit, handles, temp_todo, copy_todo, writes, edits, refs,
                   visits, moves, warnings, copied, staged, Ghosts>>

\* a walker that builds the library table after the library records were
\* handed out
Close_LateTable ==
    /\ Walking
    /\ Top.phase = "li"
    /\ Top.todo = <<>>
    /\ handles' = handles \ {Top.filepath_tmp}
    /\ LET fr == Top
           blocks == FileAt(fs, fr.filepath_tmp).blocks
           expand_codes == IF Expanding(fr) THEN SomeSet(fr.ec) ELSE NoSet
           late == IF fr.recursive THEN LibAll(blocks, expand_codes) ELSE EmptyMap
       IN  stack' = SetTop([fr EXCEPT !.phase = "recurse",
                                      !.lib_all = late,
                                      !.libs_left = DOMAIN late])
    /\ UNCHANGED <<fs, pc, err, cur, path_temp_files, path_copy_files,
                   lib_visit, temp_todo, copy_todo, writes, edits, refs,
                   visits, moves, warnings, copied, staged, Ghosts>>

\* line 175: blend.close()
Close ==
    /\ Walking
    /\ Top.phase = "li"
    /\ Top.todo = <<>>
    /\ handles' = handles \ {Top.filepath_tmp}
    /\ stack' = SetTop([Top EXCEPT
            !.phase = "recurse",
            !.libs_left = IF Top.recursive THEN DOMAIN Top.lib_all ELSE {}])
    /\ UNCHANGED <<fs, pc, err, cur, path_temp_files, path_copy_files,
                   lib_visit, temp_todo, copy_todo, writes, edits, refs,
                   visits, moves, warnings, copied, staged, Ghosts>>

\* a walker that does not subtract the names already followed
Remaining_NoSubtract(lib_block_codes, existing) ==
    lib_block_codes

\* lib_block_codes -= lib_block_codes_existing (line 187)
Remaining(lib_block_codes, existing) ==
    lib_block_codes \ existing

\* lines 181-203: one round of the loop over lib_all.items(), in any order
Recurse ==
    /\ Walking
    /\ Top.phase = "recurse"
    /\ \E lib_path \in Top.libs_left :
         LET fr == Top
             lib_path_abs == Abspath(lib_path, fr.basedir)
             existing == IF lib_path_abs \in DOMAIN lib_visit
                         THEN lib_visit[lib_path_abs] ELSE {}
             lib_block_codes == Remaining(fr.lib_all[lib_path], existing)
             child == NewFrame(lib_path_abs, SomeSet(lib_block_codes), fr.rootdir,
                               fr.level + 1, ChildHasLibVisit(fr), Len(visits) + 1)
         IN  IF ~fr.has_lib_visit
             THEN /\ Raise("AttributeError")
                  /\ UNCHANGED <<stack, lib_visit, visits>>
             ELSE /\ lib_visit' =
                        [q \in DOMAIN lib_visit \cup {lib_path_abs} |->
                            IF q = lib_path_abs THEN existing \cup lib_block_codes
                            ELSE lib_visit[q]]
                  /\ stack' = Append(SetTop([fr EXCEPT !.libs_left = @ \ {lib_path}]),
                                     child)
                  /\ visits' = Append(visits, [filepath |-> lib_path_abs,
                                               block_codes |-> SomeSet(lib_block_codes),
                                               level |-> fr.level + 1])
                  /\ UNCHANGED <<pc, err>>
    /\ UNCHANGED <<fs, cur, path_temp_files, path_copy_files,
                   handles, temp_todo, copy_todo, writes, edits, refs,
                   moves, warnings, copied, staged, Ghosts>>

\* the generator of one call is exhausted; after the outermost one pack goes on
Return ==
    /\ Walking
    /\ Top.phase = "recurse"
    /\ Top.libs_left = {}
    /\ stack' = SubSeq(stack, 1, Len(stack) - 1)
    /\ pc' = IF Len(stack) = 1 THEN "finalize" ELSE pc
    /\ UNCHANGED <<fs, err, cur, path_temp_files, path_copy_files,
                   lib_visit, handles, temp_todo, copy_todo, writes, edits, refs,
                   visits, moves, warnings, copied, staged, Ghosts>>


\* lines 369-374: the root file's staging copy becomes blendfile_dst
FinalizeRoot ==
    /\ pc = "finalize"
    /\ LET r == temp_remap_cb(blendfile_src, fs, path_temp_files, base_dir_dst)
           blendfile_dst_tmp == r.tmp
       IN  IF ~r.ok
           THEN /\ Raise("FileNotFoundError")
                /\ UNCHANGED <<fs, path_temp_files, temp_todo, copy_todo, moves,
                               staged>>
           ELSE /\ staged' = [t \in r.temps |-> FileAt(r.fs, t)]
                /\ fs' = ShMove(r.fs, blendfile_dst_tmp, blendfile_dst)
                /\ path_temp_files' = r.temps \ {blendfile_dst_tmp}
                /\ temp_todo' = r.temps \ {blendfile_dst_tmp}
                /\ copy_todo' = path_copy_files
                /\ moves' = moves \cup {<<blendfile_dst_tmp, blendfile_dst>>}
                /\ pc' = "move"
                /\ UNCHANGED err
    /\ UNCHANGED <<stack, cur, path_copy_files, lib_visit, handles,
                   writes, edits, refs, visits, warnings, copied, Ghosts>>

\* a move loop that leaves the staging suffix on
StripSuffix_Keep(fn) ==
    fn

\* fn[:-1]
StripSuffix(fn) ==
    SubSeq(fn, 1, Len(fn) - 1)

\* lines 376-378: one round of the loop over path_temp_files, in any order
MoveTemp ==
    /\ pc = "move"
    /\ \E fn \in temp_todo :
         /\ fs' = ShMove(fs, fn, StripSuffix(fn))
         /\ moves' = moves \cup {<<fn, StripSuffix(fn)>>}
         /\ temp_todo' = temp_todo \ {fn}
    /\ UNCHANGED <<pc, err, stack, cur, path_temp_files,
                   path_copy_files, lib_visit, handles, copy_todo, writes, edits,
                   refs, visits, warnings, copied, staged, Ghosts>>

\* print("  Source missing! %r" % src)
Warn(w, src) ==
    [q \in DOMAIN w \cup {src} |->
        IF q = src THEN (IF src \in DOMAIN w THEN w[src] ELSE 0) + 1 ELSE w[q]]

\* not os.path.exists(src)
SourceMissing(fsv, src) ==
    ~Exists(fsv, src)

\* lines 380-385: one round of the loop over path_copy_files, in any order
CopyStep ==
    /\ pc \in {"move", "copy"}
    /\ temp_todo = {}
    /\ \E e \in copy_todo :
         LET src == e[1]
             dst == e[2]
         IN  /\ copy_todo' = copy_todo \ {e}
             /\ IF SourceMissing(fs, src)
                THEN /\ warnings' = Warn(warnings, src)
                     /\ pc' = "copy"
                     /\ UNCHANGED <<fs, copied, err>>
                ELSE IF ~Exists(fs, src)
                THEN /\ Raise("FileNotFoundError")
                     /\ UNCHANGED <<fs, copied, warnings>>
                ELSE IF Resolve(src) = Resolve(dst)
                THEN /\ Raise("SameFileError")
                     /\ UNCHANGED <<fs, copied, warnings>>
                ELSE /\ fs' = ShCopy(fs, src, dst)
                     /\ copied' = copied \cup {e}
                     /\ pc' = "copy"
                     /\ UNCHANGED <<warnings, err>>
    /\ UNCHANGED <<stack, cur, path_temp_files, path_copy_files,
                   lib_visit, handles, temp_todo, writes, edits, refs, visits,
                   moves, staged, Ghosts>>

\* line 387: pack returns
Done ==
    /\ pc \in {"move", "copy"}
    /\ temp_todo = {}
    /\ copy_todo = {}
    /\ pc' = "done"
    /\ UNCHANGED <<fs, err, stack, cur, path_temp_files,
                   path_copy_files, lib_visit, handles, temp_todo, copy_todo,
                   writes, edits, refs, visits, moves, warnings, copied, staged, Ghosts>>

Next ==
    \/ Open
    \/ Yield
    \/ Process
    \/ BuildLibs
    \/ Close
    \/ Recurse
    \/ Return
    \/ FinalizeRoot
    \/ MoveTemp
    \/ CopyStep
    \/ Done

Spec == Init /\ [][Next]_vars


(***************************************************************************)
(* Packing the same source a second time into a fresh destination: the    *)
(* first run's destination directory is kept in first, the directory is    *)
(* emptied and pack starts again.                                          *)
(***************************************************************************)
InDst(p) == StartsWith(p, DstDir \o <<SL>>)

DstContent(fsv) ==
    [p \in {q \in DOMAIN fsv : InDst(q)} |-> fsv[p]]

Rerun ==
    /\ pc = "done"
    /\ run = 1
    /\ run' = 2
    /\ first' = DstContent(fs)
    /\ fs' = src0
    /\ pc' = "walk"
    /\ stack' = <<NewFrame(blendfile_src, NoSet, <<>>, 0, TRUE, 1)>>
    /\ cur' = NoFP
    /\ path_temp_files' = {}
    /\ path_copy_files' = {}
    /\ lib_visit' = EmptyMap
    /\ handles' = {}
    /\ temp_todo' = {}
    /\ copy_todo' = {}
    /\ writes' = {}
    /\ edits' = {}
    /\ refs' = <<>>
    /\ visits' = <<[filepath |-> blendfile_src, block_codes |-> NoSet, level |-> 0]>>
    /\ moves' = {}
    /\ warnings' = EmptyMap
    /\ copied' = {}
    /\ staged' = EmptyMap
    /\ UNCHANGED <<err, src0, xblocks, xaddr, xsubs, xst, xvisit>>

NextTwice ==
    \/ Next
    \/ Rerun

SpecTwice == Init /\ [][NextTwice]_vars


(***************************************************************************)
(* File operations that fail for a reason of the environment (permissions, *)
(* a full disk): shutil.copy and shutil.move raise OSError, and pack has   *)
(* no handler.  A failed move leaves the file system as it was; a failed   *)
(* copy leaves it as it was or leaves a truncated destination.            *)
(***************************************************************************)
Partial == [kind |-> "partial", bytes |-> "", blocks |-> <<>>]

\* the file system after shutil.copy(src, dst) failed
CopyFailed(fsv, dst, truncated) ==
    IF truncated
    THEN [q \in DOMAIN fsv \cup {Resolve(dst)} |->
             IF q = Resolve(dst) THEN Partial ELSE fsv[q]]
    ELSE fsv

IOFail ==
    /\ \/ /\ Walking
          /\ Top.phase = "open"
          /\ NeedsCopy(StagingPath(Top.filepath, base_dir_dst), path_temp_files)
          /\ Exists(fs, Top.filepath)
          /\ \E truncated \in BOOLEAN :
                fs' = CopyFailed(fs, StagingPath(Top.filepath, base_dir_dst), truncated)
       \/ /\ pc = "finalize"
          /\ fs' = fs
       \/ /\ pc = "move"
          /\ temp_todo # {}
          /\ fs' = fs
       \/ /\ pc \in {"move", "copy"}
          /\ temp_todo = {}
          /\ \E e \in copy_todo, truncated \in BOOLEAN :
                /\ ~SourceMissing(fs, e[1])
                /\ fs' = CopyFailed(fs, e[2], truncated)
    /\ Raise("OSError")
    /\ UNCHANGED <<stack, cur, path_temp_files, path_copy_files, lib_visit,
                   handles, temp_todo, copy_todo, writes, edits, refs, visits,
                   moves, warnings, copied, staged, Ghosts>>

NextFail ==
    \/ Next
    \/ IOFail

\* the source trees packed with failing file operations: those whose root
\* file holds at most MaxFailLinks library records
MaxFailLinks == 1

InitFail ==
    /\ Init
    /\ Len(FindBlocksFromCode(FileAt(fs, blendfile_src).blocks, "LI")) <= MaxFailLinks

SpecFail == InitFail /\ [][NextFail]_vars


(***************************************************************************)
(* The expansion rules and block_expand on their own, applied once to a    *)
(* block of a sample store.  The samples are well formed (a mesh's array   *)
(* has totcol elements, a group's member list ends with a null next), and  *)
(* their pointers may form cycles.                                          *)
(***************************************************************************)
MaxMat == 2

\* addresses: 1 object, 2 mesh, 3 its material array, 4 and 5 materials,
\* 6 group, 7 and 8 its members, 9 object, 10 image, 11 texture
SampleStore(d1, el, f, nx, ob7, d9, nm9) ==
    << [Blk("OB", "OBa") EXCEPT !.data = d1],
       [Blk("ME", "MEa") EXCEPT !.totcol = Len(el),
                                !.mat = IF Len(el) > 0 THEN 3 ELSE 0],
       [Blk("DATA", "") EXCEPT !.elems = el],
       Blk("MA", "MAa"),
       Blk("MA", "MAb"),
       [Blk("GR", "GRa") EXCEPT !.first = f],
       [Blk("DATA", "") EXCEPT !.next = nx, !.ob = ob7],
       [Blk("DATA", "") EXCEPT !.next = 0, !.ob = 9],
       [Blk("OB", nm9) EXCEPT !.data = d9],
       BlkIM("IMa", <<SL, SL, "i">>),
       Blk("TE", "TEa") >>

SampleStores ==
    {SampleStore(d1, el, f, nx, ob7, d9, nm9) :
        d1 \in {0, 1, 2, 6, 9, 10},
        el \in UNION {[1..n -> {0, 4, 5}] : n \in 0..MaxMat},
        f \in {0, 7}, nx \in {0, 8}, ob7 \in {0, 1, 9},
        d9 \in {0, 1, 6, 9}, nm9 \in {"OBa", "OBb"}}

InitExpand ==
    /\ xblocks \in SampleStores
    /\ xaddr = 0
    /\ xsubs = <<>>
    /\ xst = ScanStart
    /\ xvisit = NoVisit
    /\ fs = EmptyMap
    /\ src0 = EmptyMap
    /\ pc = "idle"
    /\ err = ""
    /\ stack = <<>>
    /\ cur = NoFP
    /\ path_temp_files = {}
    /\ path_copy_files = {}
    /\ lib_visit = EmptyMap
    /\ handles = {}
    /\ temp_todo = {}
    /\ copy_todo = {}
    /\ writes = {}
    /\ edits = {}
    /\ refs = <<>>
    /\ visits = <<>>
    /\ moves = {}
    /\ warnings = EmptyMap
    /\ copied = {}
    /\ staged = EmptyMap
    /\ run = 1
    /\ first = EmptyMap

Unapplied == xaddr = 0 /\ xst = ScanStart /\ xvisit = NoVisit

\* fn = ExpandID.expand_funcs.get(code); list(fn(block)) when there is one
ApplyRule ==
    /\ Unapplied
    /\ \E a \in 1..Len(xblocks) :
         /\ xaddr' = a
         /\ xsubs' = ExpandFuncs(xblocks, a).subs
    /\ UNCHANGED <<fs, pc, err, stack, cur, path_temp_files, path_copy_files,
                   lib_visit, handles, temp_todo, copy_todo, writes, edits, refs,
                   visits, moves, warnings, copied, staged, src0, run, first,
                   xblocks, xst, xvisit>>

\* list(block_expand(block, block.code)) with an empty expand set
ApplyExpand ==
    /\ Unapplied
    /\ \E a \in 1..Len(xblocks) :
         /\ xblocks[a].code \in TwoByteCodes
         /\ xst' = block_expand(xblocks, a, ScanStart)
    /\ UNCHANGED <<fs, pc, err, stack, cur, path_temp_files, path_copy_files,
                   lib_visit, handles, temp_todo, copy_todo, writes, edits, refs,
                   visits, moves, warnings, copied, staged, src0, run, first,
                   xblocks, xaddr, xsubs, xvisit>>

\* the name sets a sample store is visited with
SampleCodes == {{"OBa"}, {"GRa"}, {"IMa"}, {"OBa", "IMa"}}

\* list(FilePath.visit_from_blend(f, recursive=True, block_codes=bc, level=n)),
\* f holding the sample store, up to blend.close(), for n = 0 and n = 1
ApplyVisit ==
    /\ Unapplied
    /\ \E bc \in SampleCodes :
         xvisit' = [done |-> TRUE, block_codes |-> bc,
                    lo |-> VisitYields(xblocks,
                              NewFrame(blendfile_src, SomeSet(bc), <<>>, 0, TRUE, 1)),
                    hi |-> VisitYields(xblocks,
                              NewFrame(blendfile_src, SomeSet(bc), <<>>, 1, TRUE, 1))]
    /\ UNCHANGED <<fs, pc, err, stack, cur, path_temp_files, path_copy_files,
                   lib_visit, handles, temp_todo, copy_todo, writes, edits, refs,
                   visits, moves, warnings, copied, staged, src0, run, first,
                   xblocks, xaddr, xsubs, xst>>

NextExpand ==
    \/ ApplyRule
    \/ ApplyExpand
    \/ ApplyVisit

SpecExpand == InitExpand /\ [][NextExpand]_vars


(***************************************************************************)
(* The claims.                                                             *)
(***************************************************************************)
StagedRoot == StagingPath(blendfile_src, base_dir_dst)

\* C1: every file of the source tree (the root file, the libraries, the
\* assets) is on disk with the contents it had when pack was called, at
\* every step of pack and so when pack completes.
C1_SourceUnchanged ==
    \A p \in DOMAIN src0 : p \in DOMAIN fs /\ fs[p] = src0[p]

\* pack has completed after rewriting a reference of the root file and one of
\* a library, and after copying an asset
C1_Witness ==
    /\ pc = "done"
    /\ \E r1, r2 \in {refs[i] : i \in 1..Len(refs)} : r1.level = 0 /\ r2.level = 1
    /\ copied # {}

\* C2: every path the walker has opened in write mode was returned by the
\* remap hook for the file being visited: it is a staging path (suffix "@")
\* inside the destination directory and is no file of the source tree.
C2_WritesAreStaged ==
    \A p \in writes :
        /\ \E i \in 1..Len(visits) : p = StagingPath(visits[i].filepath, base_dir_dst)
        /\ OsDirname(p) = base_dir_dst
        /\ p[Len(p)] = AT
        /\ Resolve(p) \notin DOMAIN src0
        /\ (pc = "walk" => p \in path_temp_files)

\* a library was opened in write mode at recursion level 1, after the root
C2_Witness ==
    /\ Cardinality(writes) >= 2
    /\ \E i \in 1..Len(visits) :
          /\ visits[i].level = 1
          /\ StagingPath(visits[i].filepath, base_dir_dst) \in writes


\* the library files a blend file of the source tree links: its library
\* records' paths, resolved against its own directory
LibLinks(f) ==
    IF f \in DOMAIN src0 /\ src0[f].kind = "blend"
    THEN {Abspath(src0[f].blocks[a].path, OsDirname(f)) :
             a \in {i \in 1..Len(src0[f].blocks) : src0[f].blocks[i].code = "LI"}}
    ELSE {}

\* the files reached from the files of S by following library links
RECURSIVE LinkClosure(_)
LinkClosure(S) ==
    LET T == S \cup UNION {LibLinks(f) : f \in S}
    IN  IF T = S THEN S ELSE LinkClosure(T)

\* some file reached from the root is reached again from its own links
LinkCycle ==
    \E f \in LinkClosure({blendfile_src}) : f \in LinkClosure(LibLinks(f))

\* every library linked anywhere in the closure is a file of the source tree
LinksExist ==
    \A f \in LinkClosure({blendfile_src}) : f \in DOMAIN src0

\* C3: when the library links of the (existing) files reached from the root
\* form a cycle, pack does not fail with an error.
C3_CycleTerminates ==
    (LinkCycle /\ LinksExist) => pc # "crashed"

\* C4: no two recursive visits of the same library path have a record name
\* in common in their type_filter (block_codes).
C4_ExpandedOnce ==
    \A i, j \in 2..Len(visits) :
        (i # j /\ visits[i].filepath = visits[j].filepath)
            => visits[i].block_codes.set \cap visits[j].block_codes.set = {}

\* a library was reached a second time, through a second library record that
\* links names the first visit had already been given: they were subtracted
C4_Witness ==
    \E i, j \in 2..Len(visits) :
        /\ i < j
        /\ visits[i].filepath = visits[j].filepath
        /\ visits[i].block_codes.set # {}
        /\ visits[j].block_codes.set = {}
        /\ lib_visit[visits[j].filepath] = visits[i].block_codes.set


\* the bound on the depth to which the reference closure below is unfolded
MaxDepth == 3

Range(q) == {q[i] : i \in 1..Len(q)}

\* the walker's argument record for a visit of the source tree itself
PlainVisit(block_codes, level) ==
    [recursive |-> TRUE, level |-> level, block_codes |-> block_codes]

\* the path references reachable from file f of the source tree visited with
\* block_codes, as (file, block address): the image and library records the
\* scan of f selects, and those of every library f links the selected way
RECURSIVE ReachRefs(_, _, _, _)
ReachRefs(f, block_codes, level, fuel) ==
    IF fuel = 0 \/ f \notin DOMAIN src0 THEN {}
    ELSE LET blocks == src0[f].blocks
             fr == PlainVisit(block_codes, level)
             scan == ScanMain(blocks, fr)
             li == iter_blocks_id(blocks, "LI", fr,
                                  [out |-> <<>>, ec |-> scan.ec, calls |-> <<>>])
             la == LibAll(blocks, IF Expanding(fr) THEN SomeSet(scan.ec) ELSE NoSet)
         IN  {<<f, a>> : a \in Range(from_block(blocks, scan.out \o li.out))}
             \cup UNION {ReachRefs(Abspath(k, OsDirname(f)), SomeSet(la[k]),
                                   level + 1, fuel - 1) : k \in DOMAIN la}

RefSource(f, a) ==
    Abspath(src0[f].blocks[a].path, OsDirname(f))

\* C5: when pack has completed, the resolved source path of every reachable
\* path reference is the source of a copy list entry, and that entry was
\* copied or reported missing.
C5_ClosureComplete ==
    pc = "done" =>
        \A fa \in ReachRefs(blendfile_src, NoSet, 0, MaxDepth) :
            \E e \in path_copy_files :
                /\ e[1] = RefSource(fa[1], fa[2])
                /\ (e \in copied \/ e[1] \in DOMAIN warnings)

\* no two files that pack stages share a staging path
NoStagingClash ==
    \A i, j \in 1..Len(visits) :
        StagingPath(visits[i].filepath, base_dir_dst)
            = StagingPath(visits[j].filepath, base_dir_dst)
        => Resolve(visits[i].filepath) = Resolve(visits[j].filepath)


\* the staging copy at path tmp: the file itself while the traversal runs,
\* and what the traversal left of it once pack has started moving files
StagingCopy(tmp) ==
    IF tmp \in DOMAIN staged THEN staged[tmp] ELSE FileAt(fs, tmp)

\* C6: every rewrite made in any visit is present in the staging copy it was
\* made in, for as long as the traversal runs and in the copy the traversal
\* leaves: no later visit of the file resets it.
C6_EditsAccumulate ==
    \A e \in edits : StagingCopy(e.tmp).blocks[e.addr].path = e.value

\* the traversal is over, and one library file was visited twice with two
\* different records rewritten in the two visits
C6_Witness ==
    /\ pc = "move"
    /\ \E r1, r2 \in Range(refs) :
          /\ r1.level = 1
          /\ r1.file = r2.file
          /\ r1.vid # r2.vid
          /\ r1.addr # r2.addr
          /\ r1.path_rel # RelForm(PathBase(r1.path_rel))
          /\ r2.path_rel # RelForm(PathBase(r2.path_rel))


\* where pack leaves the file it staged at tmp
FinalPath(tmp) ==
    IF tmp = StagedRoot THEN blendfile_dst ELSE StripSuffix(tmp)

\* the references pack handled, each at the first time its record was yielded:
\* path_rel is then the path the record held before packing
FirstRefs ==
    {refs[i] : i \in {k \in 1..Len(refs) :
        \A j \in 1..(k - 1) : ~(refs[j].tmp = refs[k].tmp /\ refs[j].addr = refs[k].addr)}}

\* the path field of block addr of the blend file at path f, <<>> when there
\* is no such file or block
FieldAt(fsv, f, addr) ==
    IF Exists(fsv, f) /\ addr \in 1..Len(FileAt(fsv, f).blocks)
    THEN FileAt(fsv, f).blocks[addr].path
    ELSE <<>>

\* C7: when pack has completed, for every reference it handled whose source
\* file exists, with p the path held before packing: the field in the packed
\* file is "//" followed by the last component of p, and the destination
\* directory holds a file of that name with the contents of the file p
\* resolved to.
C7_Flattened ==
    pc = "done" =>
        \A r \in FirstRefs :
            Exists(src0, r.src) =>
                /\ FieldAt(fs, FinalPath(r.tmp), r.addr) = RelForm(PathBase(r.path_rel))
                /\ Exists(fs, OsJoin(base_dir_dst, PathBase(r.path_rel)))
                /\ FileAt(fs, OsJoin(base_dir_dst, PathBase(r.path_rel)))
                       = FileAt(src0, r.src)

\* no two copy list entries with different sources share a destination
NoCopyClash ==
    \A e1, e2 \in path_copy_files : e1[2] = e2[2] => e1[1] = e2[1]


\* C8: a reference whose source file does not exist never makes pack fail:
\* pack does not stop on a missing file while a reference it handled names
\* one, and when pack has completed the destination root file exists, every
\* copy list entry whose source is missing was skipped with exactly one
\* warning for that source, and every other entry was copied.
C8_MissingNonFatal ==
    /\ (pc = "crashed" /\ err = "FileNotFoundError") =>
            \A r \in Range(refs) : Exists(src0, r.src)
    /\ pc = "done" =>
            /\ Exists(fs, blendfile_dst)
            /\ \A e \in path_copy_files :
                    IF Exists(src0, e[1])
                    THEN e \in copied /\ e[1] \notin DOMAIN warnings
                    ELSE /\ e \notin copied
                         /\ e[1] \in DOMAIN warnings
                         /\ warnings[e[1]] = 1

\* C9: once the move loop is over, the root file's staging copy has been
\* moved to blendfile_dst and is not in path_temp_files, every other staging
\* copy has been moved to its own path without the suffix, a file of the
\* destination directory, and the moved files hold what the staging copies
\* held; when pack has completed, no path of the destination directory ends
\* with the staging suffix.
C9_Finalized ==
    /\ pc \in {"move", "copy", "done"} =>
            /\ <<StagedRoot, blendfile_dst>> \in moves
            /\ StagedRoot \notin path_temp_files
    /\ (pc \in {"move", "copy", "done"} /\ temp_todo = {}) =>
            /\ moves = {<<StagedRoot, blendfile_dst>>}
                          \cup {<<fn, StripSuffix(fn)>> : fn \in path_temp_files}
            /\ \A fn \in path_temp_files :
                    /\ fn = StripSuffix(fn) \o <<AT>>
                    /\ StripSuffix(fn) = OsJoin(base_dir_dst, OsBasename(StripSuffix(fn)))
    /\ (pc = "move" /\ temp_todo = {}) =>
            /\ Exists(fs, blendfile_dst)
            /\ FileAt(fs, blendfile_dst) = staged[StagedRoot]
            /\ \A fn \in path_temp_files :
                    /\ Exists(fs, StripSuffix(fn))
                    /\ FileAt(fs, StripSuffix(fn)) = staged[fn]
    /\ pc = "done" =>
            \A p \in DOMAIN fs : InDst(p) => p[Len(p)] # AT

\* a completed pack that staged the root file and at least one library
C9_Witness ==
    /\ pc = "done"
    /\ path_temp_files # {}
    /\ Cardinality(moves) >= 2

\* C10: a second pack of the unchanged source into an empty destination
\* directory leaves the directory exactly as the first one left it: the same
\* file names, the same asset bytes, the same value in every path field.
C10_Deterministic ==
    (run = 2 /\ pc = "done") => DstContent(fs) = first


\* C11: a file operation that fails ends pack there and then: the step that
\* sets the error leaves pack failed, no step follows a failure, the failing
\* step removes no file and undoes no bookkeeping, and in a failed pack every
\* staging copy not yet moved, every moved file and every copied asset is
\* still in the file system.
C11_FailurePropagates ==
    /\ [][/\ pc # "crashed"
          /\ err' # err => pc' = "crashed"
          /\ pc' = "crashed" =>
                /\ DOMAIN fs \subseteq DOMAIN fs'
                /\ path_temp_files' = path_temp_files
                /\ moves' = moves
                /\ copied' = copied]_vars
    /\ [](pc = "crashed" =>
            /\ \A t \in path_temp_files :
                    Exists(fs, t) \/ \E m \in moves : m[1] = t
            /\ \A m \in moves : Exists(fs, m[2])
            /\ \A e \in copied : Exists(fs, e[2]))

\* a copy failed in the copy loop, after a library was moved and an asset copied
C11_Witness ==
    /\ pc = "crashed"
    /\ err = "OSError"
    /\ Cardinality(moves) >= 2
    /\ copied # {}
    /\ copy_todo # {}


\* C12: every recursive visit is made with a non-empty set of names: a
\* library whose names were all followed by earlier visits is not opened again.
C12_NoEmptyRecursion ==
    \A i \in 1..Len(visits) :
        visits[i].level > 0 => visits[i].block_codes.set # {}


\* C13: the mesh rule applied to a mesh with material count n yields the n
\* blocks the elements of its material array point to, in order, and
\* nothing when n = 0.
C13_MeshYieldsMaterials ==
    (xaddr # 0 /\ xblocks[xaddr].code = "ME") =>
        xsubs = IF xblocks[xaddr].totcol = 0 THEN <<>>
                ELSE iter_array(xblocks, xblocks[xaddr].mat, xblocks[xaddr].totcol)

\* the member list of group g, as the sequence c of its entries: it starts at
\* the group's first entry, follows next, and ends where next is null
MemberChain(blocks, g, c) ==
    /\ (Len(c) = 0) = (blocks[g].first = 0)
    /\ Len(c) > 0 => c[1] = blocks[g].first /\ blocks[c[Len(c)]].next = 0
    /\ \A j \in 1..(Len(c) - 1) : blocks[c[j]].next = c[j + 1]

\* C14: the object rule yields the one block its data pointer names; the
\* group rule yields the object of every entry of the member list, in list
\* order up to the null next; the material and texture rules yield nothing;
\* a block whose code has no rule yields nothing.
C14_RulesAsDeclared ==
    xaddr # 0 =>
        LET b == xblocks[xaddr]
        IN  /\ b.code = "OB" => xsubs = <<b.data>>
            /\ b.code = "GR" =>
                    \E c \in [1..Len(xsubs) -> 1..Len(xblocks)] :
                        /\ MemberChain(xblocks, xaddr, c)
                        /\ \A j \in 1..Len(c) : xsubs[j] = xblocks[c[j]].ob
            /\ b.code \in {"MA", "TE"} => xsubs = <<>>
            /\ b.code \notin {"OB", "ME", "MA", "TE", "GR"} =>
                    ~ExpandFuncs(xblocks, xaddr).has /\ xsubs = <<>>

\* the group rule was applied to a group with two members
C14_Witness ==
    /\ xaddr # 0
    /\ xblocks[xaddr].code = "GR"
    /\ xblocks[xaddr].first # 0
    /\ xblocks[xblocks[xaddr].first].next # 0
    /\ Len(xsubs) = 2


\* the blocks of q that carry the name nm, as positions of q
Named(blocks, q, nm) ==
    {i \in 1..Len(q) : blocks[q[i]].idname = nm}

\* C16: in what block_expand yields from one block, starting with an empty
\* expand set: the expand set holds exactly the names of the blocks yielded,
\* no two invocations of an expansion rule are for blocks of the same name,
\* a rule is invoked only for a block that was yielded, and the blocks
\* yielded are the first block and those the invoked rules name, so the
\* expansion is finite whatever the pointers are.
C16_ExpandOnce ==
    xst # ScanStart =>
        /\ xst.ec = {xblocks[xst.out[i]].idname : i \in 1..Len(xst.out)}
        /\ \A nm \in xst.ec : Cardinality(Named(xblocks, xst.calls, nm)) <= 1
        /\ \A i \in 1..Len(xst.calls) : \E j \in 1..Len(xst.out) : xst.out[j] = xst.calls[i]
        /\ Len(xst.calls) <= Cardinality(xst.ec)
        /\ Len(xst.out) <= 1 + Len(xst.calls) * Len(xblocks)

\* an object that is its own data, met again inside its own expansion, and a
\* second object of the same name met after the first
C16_Witness ==
    /\ xst # ScanStart
    /\ \E i, j \in 1..Len(xst.out) :
            /\ i < j
            /\ xblocks[xst.out[i]].idname = xblocks[xst.out[j]].idname
            /\ xst.out[i] # xst.out[j]
    /\ \E i, j \in 1..Len(xst.out) : i < j /\ xst.out[i] = xst.out[j]


\* C17: in the sequence of references handed to pack, a reference of a later
\* visit_from_blend call never precedes one of an earlier call (a file's own
\* references all come before those of the libraries its visit goes into),
\* and within one call no library reference precedes an image reference.
C17_EmissionOrder ==
    \A i, j \in 1..Len(refs) :
        i < j =>
            /\ refs[i].vid <= refs[j].vid
            /\ refs[i].vid = refs[j].vid =>
                    ~(refs[i].code = "LI" /\ refs[j].code = "IM")

\* a root file with an image and a library link, and an image of the library
C17_Witness ==
    \E i, j, k \in 1..Len(refs) :
        /\ i < j /\ j < k
        /\ refs[i].vid = 1 /\ refs[i].code = "IM"
        /\ refs[j].vid = 1 /\ refs[j].code = "LI"
        /\ refs[k].vid = 2 /\ refs[k].code = "IM"


\* C18: at every instant at most one file is open, and it is the file of the
\* innermost visit_from_blend call: every call that has made a recursive
\* call closed its file before.
C18_OneFileOpen ==
    /\ Cardinality(handles) <= 1
    /\ \A i \in 1..(Len(stack) - 1) : stack[i].phase = "recurse"
    /\ (pc = "walk" /\ stack # <<>>) =>
            handles = IF Top.phase \in {"scan", "li"} THEN {Top.filepath_tmp} ELSE {}

\* a library is open inside the visit of the root file
C18_Witness ==
    /\ pc = "walk"
    /\ Len(stack) = 2
    /\ Top.phase = "scan"
    /\ handles = {Top.filepath_tmp}

\* C19: every FilePath is yielded while the file of its block is open, pack
\* reads and rewrites the path of every one while that file is open, and a
\* call that has closed its file has no FilePath outstanding.
C19_NoUseAfterClose ==
    /\ \A i \in 1..Len(refs) : refs[i].open
    /\ cur.some =>
            /\ cur.tmp \in handles
            /\ stack # <<>>
            /\ Top.filepath_tmp = cur.tmp
            /\ Top.phase \in {"scan", "li"}

\* pack holds an image reference of a library, about to rewrite it, after
\* it rewrote a library reference of the root file
C19_Witness ==
    /\ cur.some
    /\ cur.level = 1
    /\ FileAt(fs, cur.tmp).blocks[cur.addr].code = "IM"
    /\ \E i \in 1..Len(refs) : refs[i].code = "LI" /\ refs[i].level = 0

\* C20: the library table of the root file is the one its stored paths give,
\* whatever pack has rewritten since, and every recursive visit opens the
\* path that a library record of a file visited one level up held before
\* packing, resolved against that file's directory.
C20_TableBeforeRewrite ==
    /\ \A i \in 1..Len(stack) :
            (stack[i].level = 0 /\ stack[i].phase \in {"li", "recurse"}) =>
                stack[i].lib_all = LibAll(FileAt(src0, blendfile_src).blocks, NoSet)
    /\ \A i \in 1..Len(visits) :
            visits[i].level > 0 =>
                \E j \in 1..(i - 1) :
                    /\ visits[j].level = visits[i].level - 1
                    /\ Exists(src0, visits[j].filepath)
                    /\ LET orig == FileAt(src0, visits[j].filepath).blocks
                       IN  \E a \in 1..Len(orig) :
                               /\ orig[a].code = "LI"
                               /\ visits[i].filepath =
                                      Abspath(orig[a].path,
                                              OsDirname(OsAbspath(visits[j].filepath)))

\* a library in a subdirectory is visited after pack rewrote the root file's
\* reference to it
C20_Witness ==
    \E i \in 1..Len(visits), k \in 1..Len(refs) :
        /\ visits[i].level = 1
        /\ refs[k].level = 0
        /\ refs[k].code = "LI"
        /\ refs[k].src = visits[i].filepath
        /\ Abspath(RelForm(PathBase(refs[k].path_rel)), base_dir_src) # refs[k].src


\* C21: every visit_from_blend call in progress, at any depth, works with the
\* registry of the outermost call, and with its readonly flag and root
\* directory.
C21_RegistryShared ==
    \A i \in 1..Len(stack) :
        /\ stack[i].has_lib_visit
        /\ stack[i].readonly = stack[1].readonly
        /\ stack[i].rootdir = stack[1].rootdir


\* the original file a staging copy was made from: the file of the first
\* visit that asked for that staging path
Origin(tmp) ==
    LET k == CHOOSE k \in 1..Len(visits) :
                 /\ StagingPath(visits[k].filepath, base_dir_dst) = tmp
                 /\ \A j \in 1..(k - 1) :
                        StagingPath(visits[j].filepath, base_dir_dst) # tmp
    IN  visits[k].filepath

\* C22: every FilePath handed to pack comes with the directory of the root
\* file as root directory, and has for base directory the directory of the
\* original file its record is stored in.
C22_RootdirThreaded ==
    cur.some =>
        /\ cur.rootdir = OsDirname(OsAbspath(blendfile_src))
        /\ cur.basedir = OsDirname(OsAbspath(Origin(cur.tmp)))


\* C23: two visit_from_blend calls on the same file with the same name set,
\* one at level 0 and one at level 1, yield the same sequence of FilePaths.
C23_LevelNoEffect ==
    xvisit.done => xvisit.lo = xvisit.hi


\* C24: for every reference pack handled, the source of its copy list entry is
\* the stored path itself when that does not start with "//", and otherwise
\* the rest of the stored path joined onto the directory of the original file
\* the record is stored in.
C24_SourceResolved ==
    \A i \in 1..Len(refs) :
        LET r == refs[i]
            dir == OsDirname(OsAbspath(Origin(r.tmp)))
        IN  /\ <<r.src, r.dst>> \in path_copy_files
            /\ r.src = IF StartsWith(r.path_rel, <<SL, SL>>)
                       THEN OsJoin(dir, SubSeq(r.path_rel, 3, Len(r.path_rel)))
                       ELSE r.path_rel


\* the entries of the list that starts at address a
RECURSIVE ListMembers(_, _, _)
ListMembers(blocks, a, fuel) ==
    IF a = 0 \/ fuel = 0 THEN {}
    ELSE {a} \cup ListMembers(blocks, blocks[a].next, fuel - 1)

\* the blocks a block's pointers name: an object's data, a group's objects
Pointed(blocks, a) ==
    (CASE blocks[a].code = "OB" -> {blocks[a].data}
       [] blocks[a].code = "GR" ->
            {blocks[m].ob : m \in ListMembers(blocks, blocks[a].first, Len(blocks))}
       [] OTHER -> {}) \ {0}

RECURSIVE ReachFrom(_, _, _)
ReachFrom(blocks, S, fuel) ==
    IF fuel = 0 THEN S
    ELSE ReachFrom(blocks, S \cup UNION {Pointed(blocks, a) : a \in S}, fuel - 1)

\* the names of the requested blocks of a file and of all they lead to
ReachedNames(blocks, block_codes) ==
    LET asked == {a \in 1..Len(blocks) :
                     /\ blocks[a].code \in TwoByteCodes \ SkippedCodes
                     /\ blocks[a].idname \in block_codes}
    IN  {blocks[a].idname : a \in ReachFrom(blocks, asked, Len(blocks))}

\* the visits in progress that were given a name set and have built their table
NestedTables ==
    {i \in 1..Len(stack) : stack[i].level > 0 /\ stack[i].phase \in {"li", "recurse"}}

CalledBefore(filepath) ==
    \E k \in 1..(Top.vid - 1) : visits[k].filepath = filepath

\* this step is the visit in progress staging and opening its file
OpenStep ==
    /\ Walking
    /\ Top.phase = "open"
    /\ pc' = "walk"
    /\ Len(stack') = Len(stack)
    /\ stack'[Len(stack)].phase = "scan"

\* C26: the hook is idempotent per original file. The first call for an
\* original path leaves a copy of the original at its staging path and records
\* that path; every later call for the same original path gives the same
\* staging path and changes neither the files nor the recorded paths; the call
\* pack makes for the root file before moving it is such a later call.
C26_HookIdempotent ==
    [][/\ OpenStep =>
            LET f == Top.filepath
                tmp == stack'[Len(stack)].filepath_tmp
            IN  /\ tmp = StagingPath(f, base_dir_dst)
                /\ tmp \in path_temp_files'
                /\ IF CalledBefore(f)
                   THEN fs' = fs /\ path_temp_files' = path_temp_files
                   ELSE /\ FileAt(fs', tmp) = FileAt(fs, f)
                        /\ path_temp_files' = path_temp_files \cup {tmp}
       /\ (pc = "finalize" /\ pc' = "move") =>
            /\ FileAt(fs', blendfile_dst) = FileAt(fs, StagedRoot)
            /\ path_temp_files' = path_temp_files \ {StagedRoot}
      ]_vars


\* C27: the copy loop never overwrites a file the move phase produced from a
\* staging copy: from the end of the move loop on, and when pack has completed,
\* the root file at blendfile_dst and every packed library hold what their
\* staging copies held at the end of the traversal, the rewritten "//name"
\* paths included.
C27_FinalizedKept ==
    (pc \in {"copy", "done"}) =>
        \A tmp \in DOMAIN staged :
            /\ Exists(fs, FinalPath(tmp))
            /\ FileAt(fs, FinalPath(tmp)) = staged[tmp]
            /\ \A e \in edits :
                   e.tmp = tmp => FieldAt(fs, FinalPath(tmp), e.addr) = e.value


\* C28: two distinct original files opened during one pack have two distinct
\* staging paths, and a visit never has the staging copy made from another
\* original open in place of the copy of its own file.
C28_OwnStagingCopy ==
    /\ \A i, j \in 1..Len(visits) :
           Resolve(visits[i].filepath) # Resolve(visits[j].filepath)
               => StagingPath(visits[i].filepath, base_dir_dst)
                      # StagingPath(visits[j].filepath, base_dir_dst)
    /\ \A i \in 1..Len(stack) :
           stack[i].phase \in {"scan", "li"}
               => Resolve(Origin(stack[i].filepath_tmp)) = Resolve(stack[i].filepath)

\* C29: no two entries of the copy list with different sources have the same
\* destination, and when pack has completed every destination of a copied
\* entry holds the contents of that entry's source, whatever the order of the
\* copy loop.
C29_OneSourcePerDestination ==
    /\ \A e1, e2 \in path_copy_files : e1[1] # e2[1] => e1[2] # e2[2]
    /\ pc = "done" =>
           \A e \in copied : FileAt(fs, e[2]) = FileAt(src0, e[1])

\* C30: within one visit a record yields at most one FilePath, so pack handles
\* it once, and the source of its copy list entry is resolved from the path
\* the record held before packing.
C30_OneReferencePerRecord ==
    /\ \A i, j \in 1..Len(refs) :
           (refs[i].vid = refs[j].vid /\ refs[i].addr = refs[j].addr) => i = j
    /\ \A i, j \in 1..Len(refs) :
           (refs[i].vid = refs[j].vid /\ refs[i].addr = refs[j].addr)
               => refs[i].src = refs[j].src /\ refs[i].dst = refs[j].dst

=============================================================================
